---- MODULE Spec2Model ----
(***************************************************************************)
(* A model of the rust-tgc compiler front end: the name interner           *)
(* (src/src/intern.rs), the lexer (src/src/lexer.rs) and the parser        *)
(* (src/src/parser.rs).  Each component is an object held in one variable  *)
(* (a record of its fields); the methods are operators over that record,   *)
(* and one action per public operation applies them.  The remaining        *)
(* variables record what the operations returned.                          *)
(***************************************************************************)
EXTENDS Integers, Sequences, FiniteSets, TLC

VARIABLES
    interner,   \* Interner { entries, names }
    handles,    \* every (text, buffer, Symbol) a symbol() call took and returned
    iret,       \* what the last Interner call took and returned
    lexer,      \* Lexer { input, iter, c, ci, error }
    panicked,   \* the thread has panicked (an unwrap of Err, an index out of bounds)
    out,        \* the tokens next_token has returned, in call order
    items,      \* the Option<Token>s Iterator::next has returned, in call order
    parser,     \* Parser { tokens, pos }
    pc,         \* where Parser::parse stands: "new", "t", "f", "t_rest", "done", "panic"
    frame,      \* the caller f returns to, the left operand and the operator position
    result      \* what Parser::parse returned

vars == <<interner, handles, iret, lexer, panicked, out, items, parser, pc, frame, result>>

internerVars == <<interner, handles, iret>>
lexerVars == <<lexer, panicked, out, items>>
parserVars == <<parser, pc, frame, result>>

(***************************************************************************)
(* Bounds of the model.                                                    *)
(***************************************************************************)
MaxTextLen == 2
MaxChunks == 3
ExtraCalls == 2
MaxTokens == 5

(***************************************************************************)
(* Interner (src/src/intern.rs).  A &str is a buffer and its content; the  *)
(* buffer is what the reference points into, the content is what str's Eq  *)
(* and Hash read.                                                          *)
(***************************************************************************)
NameChars == {"x"}

RECURSIVE SeqsUpTo(_, _)
SeqsUpTo(S, n) ==
    IF n = 0 THEN {<<>>}
    ELSE LET shorter == SeqsUpTo(S, n - 1)
         IN  shorter \cup {Append(s, x) : s \in shorter, x \in S}

Texts == SeqsUpTo(NameChars, MaxTextLen)

\* the buffers a caller's &str may point into: a string literal, a temporary String
Buffers == {"literal", "temporary"}

Str(b, t) == [buf |-> b, text |-> t]

Symbol(i) == [idx |-> i]

\* a variant of str_eq that compares the references, not the contents
str_eq_by_reference(a, b) == a = b

\* <str as PartialEq>::eq, which HashMap::get uses on its keys
str_eq(a, b) == a.text = b.text

\* Interner::new
NewInterner == [entries |-> {}, names |-> <<>>]

\* HashMap::get: the values stored under a key equal to k (at most one)
entries_get(entries, k) == {e.sym : e \in {x \in entries : str_eq(x.key, k)}}

\* a variant of entries_insert that stores nothing
entries_insert_forgotten(entries, k, v) == entries

\* HashMap::insert
entries_insert(entries, k, v) ==
    {x \in entries : ~str_eq(x.key, k)} \cup {[key |-> k, sym |-> v]}

\* fn intern: a leaked copy of the text, in a buffer of its own
intern(nm) == Str("leaked", nm.text)

\* a variant of vec_push that inserts at the front
vec_push_front(v, x) == <<x>> \o v

\* Vec::push
vec_push(v, x) == Append(v, x)

\* Interner::symbol: the table after the call and the Symbol returned
symbol(tbl, nm) ==
    LET found == entries_get(tbl.entries, nm)
    IN  IF found # {}
        THEN [tbl |-> tbl, sym |-> CHOOSE s \in found : TRUE]
        ELSE LET interned == intern(nm)
                 idx == Len(tbl.names)
                 sym == Symbol(idx)
             IN  [tbl |-> [entries |-> entries_insert(tbl.entries, interned, sym),
                           names |-> vec_push(tbl.names, interned)],
                  sym |-> sym]

\* Interner::name
name(tbl, sym) == tbl.names[sym.idx + 1].text

NoCall == [op |-> "none", text |-> <<>>, sym |-> Symbol(0)]

InitInterner ==
    /\ interner = NewInterner
    /\ handles = {}
    /\ iret = NoCall

\* a call tbl.symbol(name), with name any text in any buffer
CallSymbol ==
    \E b \in Buffers, t \in Texts :
        LET r == symbol(interner, Str(b, t))
        IN  /\ interner' = r.tbl
            /\ handles' = handles \cup {[text |-> t, buf |-> b, sym |-> r.sym]}
            /\ iret' = [op |-> "symbol", text |-> t, sym |-> r.sym]
            /\ UNCHANGED <<lexerVars, parserVars>>

\* a call tbl.name(sym), with sym a handle this Interner returned
CallName ==
    \E h \in handles :
        /\ iret' = [op |-> "name", text |-> name(interner, h.sym), sym |-> h.sym]
        /\ UNCHANGED <<interner, handles, lexerVars, parserVars>>

(***************************************************************************)
(* Lexer (src/src/lexer.rs).  The input is a sequence of chars; a char is  *)
(* a one-character string, and Width is the number of bytes of its UTF-8   *)
(* encoding, so that the offsets are byte offsets as char_indices gives    *)
(* them.                                                                   *)
(***************************************************************************)
NUL == "NUL"        \* '\x00', the current char before the first and after the last
NoChar == "None"    \* Peekable::peek at the end of the input
DQ == "\""
BS == "\\"

Letters ==
    {"a", "b", "c", "d", "e", "f", "g", "h", "i", "j", "k", "l", "m",
     "n", "o", "p", "q", "r", "s", "t", "u", "v", "w", "x", "y", "z"}
DigitChars == <<"0", "1", "2", "3", "4", "5", "6", "7", "8", "9">>
Digits == {DigitChars[i] : i \in 1..Len(DigitChars)}
\* U+00E9 (a letter) and U+00B2 (superscript two, numeric but no decimal digit)
EAcute == "e'"
SuperTwo == "^2"

\* char::len_utf8
Width(ch) == IF ch \in {EAcute, SuperTwo} THEN 2 ELSE 1

\* char::is_alphabetic
is_alphabetic(ch) == ch \in Letters \cup {EAcute}
\* char::is_digit(10)
is_digit(ch) == ch \in Digits
\* char::is_numeric
is_numeric(ch) == ch \in Digits \cup {SuperTwo}
\* char::is_alphanumeric
is_alphanumeric(ch) == is_alphabetic(ch) \/ is_numeric(ch)

\* the byte offset of the i-th char of inp (i = Len(inp) + 1: the length in bytes)
RECURSIVE ByteOffset(_, _)
ByteOffset(inp, i) == IF i <= 1 THEN 0 ELSE ByteOffset(inp, i - 1) + Width(inp[i - 1])

\* str::len
ByteLen(inp) == ByteOffset(inp, Len(inp) + 1)

\* the index of the char that starts at byte offset b, walking from char i at offset
\* off (Len(inp) + 1 for the end of the input, 0 when b is no char boundary)
RECURSIVE char_index_from(_, _, _, _)
char_index_from(inp, b, i, off) ==
    IF off = b THEN i
    ELSE IF off > b \/ i > Len(inp) THEN 0
    ELSE char_index_from(inp, b, i + 1, off + Width(inp[i]))

char_index(inp, b) == char_index_from(inp, b, 1, 0)

\* &input[start..end], both offsets on char boundaries
slice(inp, start, end) == SubSeq(inp, char_index(inp, start), char_index(inp, end) - 1)

\* Token { kind, pos }: text is the payload of Id and String, num the one of Num
Tok(kind, text, num, start, end) ==
    [kind |-> kind, text |-> text, num |-> num, start |-> start, end |-> end]
Plain(kind, start, end) == Tok(kind, <<>>, 0, start, end)
NoToken == Plain("NoToken", 0, 0)

\* a call that returned tok and left the Lexer as l
Returned(l, tok) == [lexer |-> l, tok |-> tok, panic |-> FALSE]
\* a call that panicked
Panicked(l) == [lexer |-> l, tok |-> NoToken, panic |-> TRUE]

\* Lexer::scan_char
scan_char(l) ==
    IF l.iter.index <= Len(l.input)
    THEN [l EXCEPT !.ci = l.iter.offset,
                   !.c = l.input[l.iter.index],
                   !.iter = [index |-> l.iter.index + 1,
                             offset |-> l.iter.offset + Width(l.input[l.iter.index])]]
    ELSE [l EXCEPT !.ci = ByteLen(l.input), !.c = NUL]

\* self.iter.peek()
peek(l) == IF l.iter.index <= Len(l.input) THEN l.input[l.iter.index] ELSE NoChar

\* input.char_indices(): the index of the next char and its byte offset
char_indices(inp) == [index |-> 1, offset |-> 0]

\* Lexer::new
NewLexer(inp) ==
    scan_char([input |-> inp, iter |-> char_indices(inp), c |-> NUL, ci |-> 0, error |-> FALSE])

\* Lexer::is_at_end
is_at_end(l) == l.ci >= ByteLen(l.input)

Whitespace == {" ", "\t", "\r", "\n"}

\* a variant of scan_whitespace that skips spaces only
RECURSIVE scan_whitespace_spaces_only(_)
scan_whitespace_spaces_only(l) ==
    IF l.c = " " THEN scan_whitespace_spaces_only(scan_char(l)) ELSE l

\* Lexer::scan_whitespace
RECURSIVE scan_whitespace(_)
scan_whitespace(l) == IF l.c \in Whitespace THEN scan_whitespace(scan_char(l)) ELSE l

\* a variant of error_token that does not set the error flag
error_token_no_flag(l) == Returned(l, Plain("Error", l.ci, l.ci + 1))

\* Lexer::error_token
error_token(l) == Returned([l EXCEPT !.error = TRUE], Plain("Error", l.ci, l.ci + 1))

\* a variant of the loop that stops at any quote, escaped or not
RECURSIVE scan_quote_loop_any_quote(_, _)
scan_quote_loop_any_quote(l, prev) ==
    IF is_at_end(l) \/ l.c = DQ THEN l
    ELSE scan_quote_loop_any_quote(scan_char(l), l.c)

\* the loop of scan_quote
RECURSIVE scan_quote_loop(_, _)
scan_quote_loop(l, prev) ==
    IF is_at_end(l) \/ (l.c = DQ /\ prev # BS) THEN l
    ELSE scan_quote_loop(scan_char(l), l.c)

\* Lexer::scan_quote
scan_quote(l) ==
    LET start == l.ci
        l2 == scan_quote_loop(scan_char(l), l.c)
    IN  IF l2.c # DQ THEN error_token(l2)
        ELSE LET l3 == scan_char(l2)
                 end == l3.ci
             IN  Returned(l3, Tok("String", slice(l.input, start + 1, end - 1), 0, start, end))

\* the keyword table of scan_identifier_or_keyword
KeywordTable ==
    {
      <<<<"a", "r", "r", "a", "y">>, "Array">>,
      <<<<"i", "f">>, "If">>,
      <<<<"t", "h", "e", "n">>, "Then">>,
      <<<<"e", "l", "s", "e">>, "Else">>,
      <<<<"w", "h", "i", "l", "e">>, "While">>,
      <<<<"f", "o", "r">>, "For">>,
      <<<<"t", "o">>, "To">>,
      <<<<"d", "o">>, "Do">>,
      <<<<"l", "e", "t">>, "Let">>,
      <<<<"i", "n">>, "In">>,
      <<<<"e", "n", "d">>, "End">>,
      <<<<"o", "f">>, "Of">>,
      <<<<"b", "r", "e", "a", "k">>, "Break">>,
      <<<<"n", "i", "l">>, "Nil">>,
      <<<<"f", "u", "n", "c", "t", "i", "o", "n">>, "Function">>,
      <<<<"v", "a", "r">>, "Var">>,
      <<<<"t", "y", "p", "e">>, "Type">>,
      <<<<"i", "m", "p", "o", "r", "t">>, "Import">>,
      <<<<"p", "r", "i", "m", "i", "t", "i", "v", "e">>, "Primitive">>
    }

keyword_kind(text) ==
    LET hit == {k \in KeywordTable : k[1] = text}
    IN  IF hit = {} THEN "Id" ELSE (CHOOSE k \in hit : TRUE)[2]

\* a variant of the loop that does not take underscores
RECURSIVE scan_identifier_loop_no_underscore(_)
scan_identifier_loop_no_underscore(l) ==
    IF is_alphanumeric(l.c) THEN scan_identifier_loop_no_underscore(scan_char(l)) ELSE l

\* the loop of scan_identifier_or_keyword
RECURSIVE scan_identifier_loop(_)
scan_identifier_loop(l) ==
    IF is_alphanumeric(l.c) \/ l.c = "_" THEN scan_identifier_loop(scan_char(l)) ELSE l

\* Lexer::scan_identifier_or_keyword
scan_identifier_or_keyword(l) ==
    LET start == l.ci
        l2 == scan_identifier_loop(l)
        end == l2.ci
        text == slice(l.input, start, end)
        kind == keyword_kind(text)
    IN  Returned(l2, Tok(kind, IF kind = "Id" THEN text ELSE <<>>, 0, start, end))

I32Max == 2147483647

\* char::to_digit(10) of a decimal digit
digit_value(ch) == (CHOOSE i \in 1..Len(DigitChars) : DigitChars[i] = ch) - 1

\* str::parse::<i32> of a text without sign: checked multiply and add, digit by digit
RECURSIVE parse_digits(_, _, _)
parse_digits(text, i, acc) ==
    IF i > Len(text) THEN [ok |-> TRUE, val |-> acc]
    ELSE IF ~is_digit(text[i]) THEN [ok |-> FALSE, val |-> 0]
    ELSE LET d == digit_value(text[i])
         IN  IF acc > (I32Max - d) \div 10 THEN [ok |-> FALSE, val |-> 0]
             ELSE parse_digits(text, i + 1, acc * 10 + d)

parse_i32(text) == IF text = <<>> THEN [ok |-> FALSE, val |-> 0] ELSE parse_digits(text, 1, 0)

\* the loop of scan_number
RECURSIVE scan_number_loop(_)
scan_number_loop(l) == IF is_numeric(l.c) THEN scan_number_loop(scan_char(l)) ELSE l

\* Lexer::scan_number: unwrap panics when parse returns Err
scan_number(l) ==
    LET start == l.ci
        l2 == scan_number_loop(l)
        end == l2.ci
        num == parse_i32(slice(l.input, start, end))
    IN  IF num.ok THEN Returned(l2, Tok("Num", <<>>, num.val, start, end))
        ELSE Panicked(l2)

\* the arms of next_token's match that need no lookahead
SingleChar ==
    {<<",", "Comma">>, <<";", "Semicolon">>, <<"(", "LeftParen">>, <<")", "RightParen">>,
     <<"[", "LeftSquare">>, <<"]", "RightSquare">>, <<"{", "LeftCurly">>,
     <<"}", "RightCurly">>, <<".", "Period">>, <<"+", "Plus">>, <<"-", "Minus">>,
     <<"*", "Times">>, <<"/", "Divide">>, <<"=", "Equals">>, <<"&", "Ampsersand">>,
     <<"|", "Pipe">>}

\* a variant of match_kind without the lookahead: one-character tokens only
match_kind_no_lookahead(l) ==
    LET single == {p \in SingleChar : p[1] = l.c}
    IN  IF l.c = ":" THEN [lexer |-> l, kind |-> "Colon"]
        ELSE IF l.c = "<" THEN [lexer |-> l, kind |-> "LT"]
        ELSE IF l.c = ">" THEN [lexer |-> l, kind |-> "GT"]
        ELSE IF single # {} THEN [lexer |-> l, kind |-> (CHOOSE p \in single : TRUE)[2]]
        ELSE [lexer |-> l, kind |-> "Error"]

\* the match of next_token on the current char (the quote arm apart): the kind, and
\* the Lexer after the scan_char of a two-character operator
match_kind(l) ==
    LET single == {p \in SingleChar : p[1] = l.c}
    IN  IF l.c = ":"
        THEN IF peek(l) = "=" THEN [lexer |-> scan_char(l), kind |-> "ColonEquals"]
             ELSE [lexer |-> l, kind |-> "Colon"]
        ELSE IF l.c = "<"
        THEN IF peek(l) = "=" THEN [lexer |-> scan_char(l), kind |-> "LE"]
             ELSE IF peek(l) = ">" THEN [lexer |-> scan_char(l), kind |-> "NotEquals"]
             ELSE [lexer |-> l, kind |-> "LT"]
        ELSE IF l.c = ">"
        THEN IF peek(l) = "=" THEN [lexer |-> scan_char(l), kind |-> "GE"]
             ELSE [lexer |-> l, kind |-> "GT"]
        ELSE IF single # {} THEN [lexer |-> l, kind |-> (CHOOSE p \in single : TRUE)[2]]
        ELSE [lexer |-> l, kind |-> "Error"]

\* a variant of operator_token that reads the end offset before the last scan_char
operator_token_stale_end(m, start) ==
    LET l2 == scan_char(m.lexer)
    IN  Returned(l2, Plain(m.kind, start, m.lexer.ci))

\* the end of next_token for punctuation and operators: eat the last char, and the
\* token ends at the new offset
operator_token(m, start) ==
    LET l2 == scan_char(m.lexer)
    IN  Returned(l2, Plain(m.kind, start, l2.ci))

\* Lexer::next_token
next_token(l0) ==
    LET l == scan_whitespace(l0)
    IN  IF is_at_end(l) THEN Returned(l, Plain("EOF", l.ci, l.ci))
        ELSE IF l.c = DQ THEN scan_quote(l)
        ELSE LET start == l.ci
                 m == match_kind(l)
             IN  IF m.kind # "Error" THEN operator_token(m, start)
                 ELSE IF is_alphabetic(l.c) THEN scan_identifier_or_keyword(l)
                 ELSE IF is_digit(l.c) THEN scan_number(l)
                 ELSE error_token(l)

(***************************************************************************)
(* The source texts the Lexer is built over: up to MaxChunks pieces, each  *)
(* a char or a short text, so that operators, strings, escaped quotes,     *)
(* identifiers, keywords, numbers at the edge of i32 and illegal chars all *)
(* occur.                                                                  *)
(***************************************************************************)
Chunks ==
    {<<" ">>, <<"\n">>, <<":">>, <<"=">>, <<"<">>, <<">">>, <<DQ>>, <<BS>>,
     <<"x">>, <<"i", "f">>, <<"_">>, <<"1">>, <<BS, DQ>>, <<"~">>,
     <<EAcute>>, <<SuperTwo>>,
     <<"2", "1", "4", "7", "4", "8", "3", "6", "4", "7">>,
     <<"2", "1", "4", "7", "4", "8", "3", "6", "4", "8">>}

RECURSIVE Concats(_)
Concats(n) ==
    IF n = 0 THEN {<<>>}
    ELSE LET shorter == Concats(n - 1)
         IN  shorter \cup {s \o ch : s \in shorter, ch \in Chunks}

Inputs == Concats(MaxChunks)

\* Option<Token>
Some(tok) == [some |-> TRUE, tok |-> tok]
None == [some |-> FALSE, tok |-> NoToken]

\* the calls that ended the token stream: EOF or Error returned, None returned
Ended(toks) == Cardinality({i \in 1..Len(toks) : toks[i].kind \in {"EOF", "Error"}})
NoneCount(its) == Cardinality({i \in 1..Len(its) : ~its[i].some})

InitLexer ==
    /\ \E inp \in Inputs : lexer = NewLexer(inp)
    /\ panicked = FALSE
    /\ out = <<>>
    /\ items = <<>>

IdleLexer ==
    /\ lexer = NewLexer(<<>>)
    /\ panicked = FALSE
    /\ out = <<>>
    /\ items = <<>>

\* a call lex.next_token()
NextToken ==
    /\ ~panicked
    /\ Ended(out) <= ExtraCalls
    /\ LET r == next_token(lexer)
       IN  IF r.panic
           THEN /\ panicked' = TRUE
                /\ UNCHANGED <<lexer, out>>
           ELSE /\ lexer' = r.lexer
                /\ out' = Append(out, r.tok)
                /\ UNCHANGED panicked
    /\ UNCHANGED <<items, internerVars, parserVars>>

\* <Lexer as Iterator>::next: the Lexer after it, the item, and the token of the
\* next_token call it made (if it made one)
iterator_next(l) ==
    IF l.error
    THEN [lexer |-> l, item |-> None, called |-> FALSE, tok |-> NoToken, panic |-> FALSE]
    ELSE LET r == next_token(l)
         IN  [lexer |-> r.lexer,
              item |-> IF r.tok.kind = "EOF" THEN None ELSE Some(r.tok),
              called |-> TRUE, tok |-> r.tok, panic |-> r.panic]

\* a call lex.next() through the Iterator trait
IterNext ==
    /\ ~panicked
    /\ NoneCount(items) <= ExtraCalls
    /\ LET r == iterator_next(lexer)
       IN  IF r.panic
           THEN /\ panicked' = TRUE
                /\ UNCHANGED <<lexer, out, items>>
           ELSE /\ lexer' = r.lexer
                /\ out' = IF r.called THEN Append(out, r.tok) ELSE out
                /\ items' = Append(items, r.item)
                /\ UNCHANGED panicked
    /\ UNCHANGED <<internerVars, parserVars>>

(***************************************************************************)
(* Parser (src/src/parser.rs).  parse runs t, f and t_rest on the native   *)
(* call stack; pc is the function about to run and frame what its caller   *)
(* holds: f is called from t (its result is the left operand) and from     *)
(* t_rest (its result is the right operand of the product at frame.pos).   *)
(***************************************************************************)
TokenChoices ==
    {Tok("Num", <<>>, 3, 0, 0), Tok("Num", <<>>, 4, 0, 0), Plain("Times", 0, 0),
     Plain("Plus", 0, 0), Plain("LeftParen", 0, 0), Plain("RightParen", 0, 0)}

\* the token sequences handed to Parser::new: the i-th token spans [i-1, i)
TokenSeqs ==
    {[i \in 1..Len(s) |-> [s[i] EXCEPT !.start = i - 1, !.end = i]] :
        s \in SeqsUpTo(TokenChoices, MaxTokens)}

\* Parser::new
NewParser(toks) == [tokens |-> toks, pos |-> 0]

\* Parser::is_eof
is_eof(p) == p.pos >= Len(p.tokens)

\* self.tokens[self.pos] is in bounds (it panics otherwise)
in_bounds(p) == p.pos < Len(p.tokens)

\* a TokenKind: the kind and its payload, without the position
TokenKind(tok) == [kind |-> tok.kind, text |-> tok.text, num |-> tok.num]

\* Parser::peek
parser_peek(p) == TokenKind(p.tokens[p.pos + 1])

\* Parser::tok_pos
tok_pos(p) == [start |-> p.tokens[p.pos + 1].start, end |-> p.tokens[p.pos + 1].end]

\* a variant of advance that skips a token
advance_by_two(p) == [p EXCEPT !.pos = p.pos + 2]

\* Parser::advance
advance(p) == [p EXCEPT !.pos = p.pos + 1]

\* Expr::Int and Expr::BinOp
ExprInt(x) == [node |-> "Int", val |-> x]

\* a variant of BinOp with the operands the other way round
BinOp_swapped(l, op, r, at) ==
    [node |-> "BinOp", left |-> r, oper |-> op, right |-> l, pos |-> at]

BinOp(l, op, r, at) == [node |-> "BinOp", left |-> l, oper |-> op, right |-> r, pos |-> at]
NoExpr == [node |-> "None"]
NoPos == [start |-> 0, end |-> 0]

\* ParseResult
Ok(e) == [ok |-> TRUE, expr |-> e]
\* fn unexpected_token
unexpected_token(expected, actual) ==
    [ok |-> FALSE, err |-> "UnexpectedToken", expected |-> expected, actual |-> actual]
NoResult == [ok |-> FALSE, err |-> "None"]

NoFrame == [ret |-> "none", left |-> NoExpr, pos |-> NoPos]

InitParser ==
    /\ \E toks \in TokenSeqs : parser = NewParser(toks)
    /\ pc = "new"
    /\ frame = NoFrame
    /\ result = NoResult

IdleParser ==
    /\ parser = NewParser(<<>>)
    /\ pc = "new"
    /\ frame = NoFrame
    /\ result = NoResult

\* a call parser.parse(), which calls t
Parse ==
    /\ pc = "new"
    /\ pc' = "t"
    /\ UNCHANGED <<parser, frame, result, internerVars, lexerVars>>

\* Parser::t up to its call of f
StepT ==
    /\ pc = "t"
    /\ IF ~in_bounds(parser)
       THEN /\ pc' = "panic"
            /\ UNCHANGED <<parser, frame, result>>
       ELSE LET kind == parser_peek(parser)
            IN  IF kind.kind \in {"Num", "LeftParen"}
                THEN /\ pc' = "f"
                     /\ frame' = [ret |-> "t", left |-> NoExpr, pos |-> NoPos]
                     /\ UNCHANGED <<parser, result>>
                ELSE /\ pc' = "done"
                     /\ result' = unexpected_token("an arithmetic expression", kind)
                     /\ UNCHANGED <<parser, frame>>
    /\ UNCHANGED <<internerVars, lexerVars>>

\* Parser::f, and its caller taking the result: t as left, t_rest as the right
\* operand of a product; an Err goes up through the ? of the caller
StepF ==
    /\ pc = "f"
    /\ IF ~in_bounds(parser)
       THEN /\ pc' = "panic"
            /\ UNCHANGED <<parser, frame, result>>
       ELSE LET kind == parser_peek(parser)
            IN  IF kind.kind = "Num"
                THEN /\ parser' = advance(parser)
                     /\ frame' = [frame EXCEPT !.left =
                                     IF frame.ret = "t" THEN ExprInt(kind.num)
                                     ELSE BinOp(frame.left, "Times", ExprInt(kind.num), frame.pos)]
                     /\ pc' = "t_rest"
                     /\ UNCHANGED result
                ELSE /\ pc' = "done"
                     /\ result' = unexpected_token("a number", kind)
                     /\ UNCHANGED <<parser, frame>>
    /\ UNCHANGED <<internerVars, lexerVars>>

\* Parser::t_rest up to its call of f, or to its return
StepTRest ==
    /\ pc = "t_rest"
    /\ IF is_eof(parser)
       THEN /\ pc' = "done"
            /\ result' = Ok(frame.left)
            /\ UNCHANGED <<parser, frame>>
       ELSE LET kind == parser_peek(parser)
            IN  IF kind.kind = "Times"
                THEN /\ parser' = advance(parser)
                     /\ frame' = [ret |-> "t_rest", left |-> frame.left, pos |-> tok_pos(parser)]
                     /\ pc' = "f"
                     /\ UNCHANGED result
                ELSE /\ pc' = "done"
                     /\ result' = Ok(frame.left)
                     /\ UNCHANGED <<parser, frame>>
    /\ UNCHANGED <<internerVars, lexerVars>>

(***************************************************************************)
(* The specifications: one Interner and its callers; one Lexer driven by   *)
(* next_token; one Lexer driven as an Iterator; one Parser.                *)
(***************************************************************************)
InitI == InitInterner /\ IdleLexer /\ IdleParser
NextI == CallSymbol \/ CallName
SpecInterner == InitI /\ [][NextI]_vars

InitL == InitLexer /\ InitInterner /\ IdleParser
NextL == NextToken
SpecLexer == InitL /\ [][NextL]_vars

NextIt == IterNext
SpecIter == InitL /\ [][NextIt]_vars

InitP == InitParser /\ InitInterner /\ IdleLexer
NextP == Parse \/ StepT \/ StepF \/ StepTRest
SpecParser == InitP /\ [][NextP]_vars

(***************************************************************************)
(* Properties of the Interner, under SpecInterner.                         *)
(***************************************************************************)

\* C1: of the texts interned so far, from whichever buffer and at whatever time, two
\* got the same Symbol if and only if they are equal as content.
C1_SymbolEqualIffTextEqual ==
    \A h1, h2 \in handles : (h1.sym = h2.sym) <=> (h1.text = h2.text)

\* C1's case: one text interned from two buffers, and another text interned too
C1_SameTextTwoBuffers ==
    \E h1, h2, h3 \in handles :
        /\ h1.text = h2.text
        /\ h1.buf # h2.buf
        /\ h3.text # h1.text

\* C2: name(symbol(s)) = s for every handle symbol() ever returned, in every later
\* state of the table, and a name() call returns the text its handle was given for.
C2_NameOfSymbolRoundTrip ==
    /\ \A h \in handles : name(interner, h.sym) = h.text
    /\ iret.op = "name" => \A h \in handles : h.sym = iret.sym => iret.text = h.text

\* C2's case: name() called with the first handle after two other texts were interned
C2_EarlyHandleLookedUpLater ==
    /\ iret.op = "name"
    /\ iret.sym = Symbol(0)
    /\ Len(interner.names) >= 3

\* the texts interned so far
InternedTexts == {h.text : h \in handles}

\* C19: names and entries have one element for each distinct text interned so far;
\* every handle returned is below names.len() and is the index of its text in names;
\* a symbol call with a new text appends it to names, so that the k-th distinct text
\* has index k - 1, and adds one entry; a symbol call with a text interned before
\* leaves names and entries as they were.
C19_DenseAppendOnlyTable ==
    /\ [](/\ Len(interner.names) = Cardinality(interner.entries)
          /\ Len(interner.names) = Cardinality(InternedTexts)
          /\ \A h \in handles :
                /\ h.sym.idx >= 0
                /\ h.sym.idx < Len(interner.names)
                /\ interner.names[h.sym.idx + 1].text = h.text)
    /\ [][interner' # interner
            => /\ iret'.op = "symbol"
               /\ iret'.text \notin InternedTexts
               /\ iret'.sym.idx = Len(interner.names)
               /\ Len(interner'.names) = Len(interner.names) + 1
               /\ SubSeq(interner'.names, 1, Len(interner.names)) = interner.names
               /\ interner'.names[Len(interner'.names)].text = iret'.text
               /\ interner.entries \subseteq interner'.entries
               /\ Cardinality(interner'.entries) = Cardinality(interner.entries) + 1]_vars
    /\ [][(iret'.op = "symbol" /\ iret'.text \in InternedTexts)
            => interner' = interner]_vars

\* C19's case: three distinct texts are interned, and the last call was symbol() with
\* the first of them again
C19_FirstTextInternedAgain ==
    /\ Len(interner.names) = 3
    /\ iret.op = "symbol"
    /\ iret.sym.idx = 0
    /\ \E h \in handles : h.text = iret.text /\ h.sym = iret.sym

(***************************************************************************)
(* Properties of the Lexer, under SpecLexer (next_token) and SpecIter      *)
(* (Iterator::next).  What the input holds is read from the input itself,  *)
(* not from the scan.                                                      *)
(***************************************************************************)

\* the char with index i, NoChar when there is none
CharAt(inp, i) == IF 1 <= i /\ i <= Len(inp) THEN inp[i] ELSE NoChar

\* the index of the first char at or after index i that is no whitespace
\* (Len(inp) + 1: only whitespace, or nothing, remains)
RECURSIVE FirstNonWhitespace(_, _)
FirstNonWhitespace(inp, i) ==
    IF i > Len(inp) \/ inp[i] \notin Whitespace THEN i ELSE FirstNonWhitespace(inp, i + 1)

\* the index of the char the Lexer stands on (Len + 1 at the end of the input)
CurrentIndex(l) == IF is_at_end(l) THEN Len(l.input) + 1 ELSE l.iter.index - 1

\* the char at index q is a quote that no later unescaped quote closes
UnterminatedQuoteAt(inp, q) ==
    /\ q <= Len(inp)
    /\ inp[q] = DQ
    /\ ~\E j \in (q + 1)..Len(inp) : inp[j] = DQ /\ inp[j - 1] # BS

\* C3: once next_token has returned an Error token, every later call returns an Error
\* token with the same position range.
C3_StickyError ==
    \A i, j \in 1..Len(out) :
        (i < j /\ out[i].kind = "Error")
            => /\ out[j].kind = "Error"
               /\ out[j].start = out[i].start
               /\ out[j].end = out[i].end

\* C4: when the next token starts at a quote that no later unescaped quote closes, the
\* iterator yields an Error token that starts at the offset of that quote; the stream
\* holds one Error token, and nothing follows it.
C4_UnterminatedStringError ==
    /\ [][(/\ ~panicked /\ ~lexer.error
           /\ UnterminatedQuoteAt(lexer.input,
                                  FirstNonWhitespace(lexer.input, CurrentIndex(lexer)))
           /\ items' # items)
          => LET item == items'[Len(items')]
                 q == FirstNonWhitespace(lexer.input, CurrentIndex(lexer))
             IN  /\ item.some
                 /\ item.tok.kind = "Error"
                 /\ item.tok.start = ByteOffset(lexer.input, q)]_vars
    /\ [](\A i, j \in 1..Len(items) :
            (i < j /\ items[i].some /\ items[i].tok.kind = "Error") => ~items[j].some)

\* the end of the run of decimal digits that starts at index i
RECURSIVE DigitRunEnd(_, _)
DigitRunEnd(inp, i) ==
    IF i > Len(inp) \/ inp[i] \notin Digits THEN i ELSE DigitRunEnd(inp, i + 1)

\* the index of the first digit of digs, from i on, that is not "0" (Len + 1: none)
RECURSIVE FirstNonZero(_, _)
FirstNonZero(digs, i) ==
    IF i > Len(digs) \/ digs[i] # "0" THEN i ELSE FirstNonZero(digs, i + 1)

Overflows(inp, i, n) ==
    \* the digits inp[i..n-1] denote a number above I32Max, compared digit by digit
    LET digs == SubSeq(inp, i, n - 1)
        lead == FirstNonZero(digs, 1)
        sig == SubSeq(digs, lead, Len(digs))
        max == <<"2", "1", "4", "7", "4", "8", "3", "6", "4", "7">>
    IN  \/ Len(sig) > Len(max)
        \/ /\ Len(sig) = Len(max)
           /\ \E k \in 1..Len(max) :
                 /\ \A m \in 1..(k - 1) : sig[m] = max[m]
                 /\ digit_value(sig[k]) > digit_value(max[k])

\* the next token starts at a run of decimal digits whose value does not fit i32
AtOverflowingNumber(l) ==
    LET q == FirstNonWhitespace(l.input, CurrentIndex(l))
    IN  /\ q <= Len(l.input)
        /\ l.input[q] \in Digits
        /\ Overflows(l.input, q, DigitRunEnd(l.input, q))

\* C5: on a run of decimal digits whose value does not fit i32, next_token does not
\* panic: it returns an Error token.
C5_OverflowIsErrorToken ==
    [][(~panicked /\ AtOverflowingNumber(lexer))
       => /\ ~panicked'
          /\ Len(out') = Len(out) + 1
          /\ out'[Len(out')].kind = "Error"]_vars

\* the tokens yielded so far: the Some items, in order
Yielded == [k \in 1..Len(SelectSeq(items, LAMBDA it : it.some)) |->
               SelectSeq(items, LAMBDA it : it.some)[k].tok]

\* C7: the iterator yields the tokens next_token returns, in source order; it never
\* yields EOF, yields nothing after an Error token, and once it has returned None it
\* returns None ever after.
C7_IteratorProtocol ==
    /\ Yielded = SelectSeq(out, LAMBDA t : t.kind # "EOF")
    /\ \A i \in 1..Len(items) : items[i].some => items[i].tok.kind # "EOF"
    /\ \A i, j \in 1..Len(items) :
          (i < j /\ items[i].some /\ items[j].some)
              => /\ items[i].tok.start < items[j].tok.start
                 /\ items[i].tok.end <= items[j].tok.start
    /\ \A i, j \in 1..Len(items) :
          (i < j /\ items[i].some /\ items[i].tok.kind = "Error") => ~items[j].some
    /\ \A i, j \in 1..Len(items) : (i < j /\ ~items[i].some) => ~items[j].some

\* C7's case: a token, then an Error token, then None twice
C7_TokenErrorNoneNone ==
    /\ Len(items) >= 4
    /\ items[1].some /\ items[1].tok.kind # "Error"
    /\ items[2].some /\ items[2].tok.kind = "Error"
    /\ ~items[3].some
    /\ ~items[4].some

\* the token that starts with c1 when c2 follows it at once, for c1 one of : < >
ExpectedOperator(c1, c2) ==
    IF c1 = ":" THEN (IF c2 = "=" THEN "ColonEquals" ELSE "Colon")
    ELSE IF c1 = "<" THEN (IF c2 = "=" THEN "LE" ELSE IF c2 = ">" THEN "NotEquals" ELSE "LT")
    ELSE (IF c2 = "=" THEN "GE" ELSE "GT")

OperatorWidth(kind) == IF kind \in {"ColonEquals", "LE", "NotEquals", "GE"} THEN 2 ELSE 1

\* C8: a token that starts at ':', '<' or '>' is the two-character operator, two bytes
\* wide, when the char right after completes one of := <= <> >=, and the
\* one-character Colon, LT or GT, one byte wide, otherwise.
C8_MaximalMunch ==
    \A k \in 1..Len(out) :
        LET t == out[k]
            i == char_index(lexer.input, t.start)
            c1 == CharAt(lexer.input, i)
            c2 == CharAt(lexer.input, i + 1)
            kind == ExpectedOperator(c1, c2)
        IN  c1 \in {":", "<", ">"}
                => t = Plain(kind, t.start, t.start + OperatorWidth(kind))

\* C8's case: a := was lexed as one token and a lone : as Colon
C8_ColonEqualsAndColon ==
    \E i, j \in 1..Len(out) :
        /\ out[i].kind = "ColonEquals"
        /\ out[i].end = out[i].start + 2
        /\ out[j].kind = "Colon"

\* the tokens returned before the first EOF or Error
Body ==
    LET ends == {k \in 1..Len(out) : out[k].kind \in {"EOF", "Error"}}
    IN  IF ends = {} THEN out
        ELSE SubSeq(out, 1, (CHOOSE k \in ends : \A m \in ends : k <= m) - 1)

\* EOF has been returned, and no Error
ReachedEof ==
    /\ \E k \in 1..Len(out) : out[k].kind = "EOF"
    /\ \A k \in 1..Len(out) : out[k].kind # "Error"

Bytes(inp) == 0..(ByteLen(inp) - 1)
WhitespaceBytes(inp) == {ByteOffset(inp, i) : i \in {j \in 1..Len(inp) : inp[j] \in Whitespace}}
NonWhitespaceBytes(inp) == Bytes(inp) \ WhitespaceBytes(inp)
Covered(toks) == {b \in Bytes(lexer.input) : \E k \in 1..Len(toks) : toks[k].start <= b /\ b < toks[k].end}
InString(toks) ==
    {b \in Bytes(lexer.input) :
        \E k \in 1..Len(toks) : toks[k].kind = "String" /\ toks[k].start <= b /\ b < toks[k].end}

\* the ranges are within the input, disjoint and strictly increasing
Increasing(toks) ==
    /\ \A k \in 1..Len(toks) :
          0 <= toks[k].start /\ toks[k].start <= toks[k].end /\ toks[k].end <= ByteLen(lexer.input)
    /\ \A j, k \in 1..Len(toks) :
          j < k => (toks[j].start < toks[k].start /\ toks[j].end <= toks[k].start)

\* C9 as claimed: the ranges of the tokens before EOF or the first error are within
\* the input, disjoint and strictly increasing, and (the input lexed to EOF) their
\* union is exactly the non-whitespace bytes of the input.
C9_TokensCoverNonWhitespace ==
    /\ Increasing(Body)
    /\ ReachedEof => Covered(Body) = NonWhitespaceBytes(lexer.input)

\* the bytes scanned: all of the input at EOF, up to the end of the last token before
Scanned ==
    IF ReachedEof THEN Bytes(lexer.input)
    ELSE IF Body = <<>> THEN {}
    ELSE 0..(Body[Len(Body)].end - 1)

\* C9, amended: the ranges of the tokens before EOF or the first error are non-empty,
\* within the input, disjoint and strictly increasing, and among the bytes scanned
\* (all of the input once EOF is returned) their union is exactly the bytes that are
\* no whitespace or lie inside a String token.
C9_TokensCoverNonWhitespaceAndStrings ==
    LET body == Body
        ws == WhitespaceBytes(lexer.input)
        covered == Covered(body)
        strings == InString(body)
    IN  /\ Increasing(body)
        /\ \A k \in 1..Len(body) : body[k].start < body[k].end
        /\ \A b \in Scanned : b \in covered <=> (b \notin ws \/ b \in strings)

\* C9's case: an input lexed to EOF that holds a String token with whitespace in it
C9_StringWithWhitespaceLexed ==
    /\ ReachedEof
    /\ InString(Body) \cap WhitespaceBytes(lexer.input) # {}

\* the offset the Lexer stands at when call k is made: the end of the token before
PrevEnd(k) == IF k = 1 THEN 0 ELSE out[k - 1].end

\* C10: when only whitespace or nothing remains and no Error token was returned
\* before, next_token returns EOF at [len, len); and an EOF token is at [len, len)
\* and every later call returns the same token.
C10_EofAtEnd ==
    \A k \in 1..Len(out) :
        LET len == ByteLen(lexer.input)
            ws == WhitespaceBytes(lexer.input)
        IN  /\ ( /\ \A j \in 1..(k - 1) : out[j].kind # "Error"
                 /\ \A b \in PrevEnd(k)..(len - 1) : b \in ws )
                    => out[k] = Plain("EOF", len, len)
            /\ out[k].kind = "EOF"
                    => /\ out[k] = Plain("EOF", len, len)
                       /\ \A j \in (k + 1)..Len(out) : out[j] = out[k]

\* C10's case: a token, trailing whitespace, and EOF returned twice
C10_EofTwiceAfterWhitespace ==
    /\ Len(out) >= 3
    /\ out[1].kind \notin {"EOF", "Error"}
    /\ out[2].kind = "EOF"
    /\ out[3].kind = "EOF"
    /\ lexer.input[Len(lexer.input)] \in Whitespace

\* C16: a token other than EOF and Error is not empty and the Lexer stands at or past
\* its end afterwards, so the next token starts no earlier; hence the iterator yields
\* at most len(input) items, and it then returns None: no call ends without a result.
C16_ProgressAndTermination ==
    /\ \A k \in 1..Len(out) :
          out[k].kind \notin {"EOF", "Error"}
              => /\ out[k].end > out[k].start
                 /\ k < Len(out) => out[k + 1].start >= out[k].end
                 /\ k = Len(out) => lexer.ci >= out[k].end
    /\ Len(Yielded) <= ByteLen(lexer.input)
    /\ ~panicked

\* the end of the maximal run, from index i on, of letters, chars of the set numerics
\* and underscores
RECURSIVE IdentifierRunEnd(_, _, _)
IdentifierRunEnd(inp, i, numerics) ==
    IF i > Len(inp) \/ ~(is_alphabetic(inp[i]) \/ inp[i] \in numerics \/ inp[i] = "_")
    THEN i
    ELSE IdentifierRunEnd(inp, i + 1, numerics)

\* every token that starts at an alphabetic char spans the maximal run of letters,
\* numerics and underscores from there, and is the keyword token when the run is one
\* of the 19 keywords and Id of the run otherwise
IdentifierOrKeywordOverRun(numerics) ==
    /\ Cardinality(KeywordTable) = 19
    /\ \A k \in 1..Len(out) :
          LET t == out[k]
              i == char_index(lexer.input, t.start)
              n == IdentifierRunEnd(lexer.input, i, numerics)
              text == SubSeq(lexer.input, i, n - 1)
              kw == {p \in KeywordTable : p[1] = text}
          IN  is_alphabetic(CharAt(lexer.input, i))
                  => /\ t.end = ByteOffset(lexer.input, n)
                     /\ IF kw = {} THEN t = Tok("Id", text, 0, t.start, t.end)
                        ELSE \E p \in kw : t = Plain(p[2], t.start, t.end)

\* C17, as stated: at an alphabetic char next_token consumes the maximal run of
\* letters, decimal digits and underscores, and returns the keyword token iff the run
\* is one of the 19 keywords, Id(run) otherwise.
C17_IdentifierOrKeyword == IdentifierOrKeywordOverRun(Digits)

\* C17, amended: at an alphabetic char next_token consumes the maximal run of letters,
\* numeric chars (decimal digits or not) and underscores, and returns the keyword token
\* iff the run is one of the 19 keywords, Id(run) otherwise.
C17_IdentifierOrKeywordOverAlphanumerics == IdentifierOrKeywordOverRun(Digits \cup {SuperTwo})

\* C17's case: a run that has the keyword if as a prefix, and ends in a numeric char
\* that is no decimal digit, was lexed as one Id
C17_KeywordPrefixIsId ==
    \E k \in 1..Len(out) : out[k].kind = "Id" /\ out[k].text = <<"i", "f", SuperTwo>>

\* the index of the first quote after index q that no backslash immediately precedes
\* (0: there is none)
ClosingQuote(inp, q) ==
    LET js == {j \in (q + 1)..Len(inp) : inp[j] = DQ /\ inp[j - 1] # BS}
    IN  IF js = {} THEN 0 ELSE CHOOSE j \in js : \A m \in js : j <= m

\* C18: a token that starts at a quote is a String token only when a later quote with
\* no backslash right before it exists; it then spans from the opening quote to just
\* after the first such quote, and its payload is the raw text between the two.
C18_StringLiteralScan ==
    \A k \in 1..Len(out) :
        LET t == out[k]
            q == char_index(lexer.input, t.start)
            j == ClosingQuote(lexer.input, q)
        IN  CharAt(lexer.input, q) = DQ
                => /\ j # 0
                   /\ t = Tok("String", SubSeq(lexer.input, q + 1, j - 1), 0,
                              t.start, ByteOffset(lexer.input, j) + 1)

\* C18's case: a String token whose payload holds a backslash and the quote it escapes
C18_EscapedQuoteInsideString ==
    \E k \in 1..Len(out) : out[k].kind = "String" /\ out[k].text = <<BS, DQ>>

(***************************************************************************)
(* Properties of the Parser, under SpecParser.                             *)
(***************************************************************************)

\* C6: parse never indexes tokens at or past tokens.len() (which panics), and what it
\* returns is Ok(expr) or Err(UnexpectedToken).
C6_ParseIsTotal ==
    /\ pc # "panic"
    /\ pc = "done" => (result.ok \/ result.err = "UnexpectedToken")

\* the token sequence is n1 * n2 * ... * nk, with k >= 2 integer literals
IsProduct(toks) ==
    /\ Len(toks) >= 3
    /\ Len(toks) % 2 = 1
    /\ \A i \in 1..Len(toks) : toks[i].kind = (IF i % 2 = 1 THEN "Num" ELSE "Times")

\* the left-nested tree of the product toks[1..n]: ((n1 * n2) * n3) ... * n
RECURSIVE LeftNested(_, _)
LeftNested(toks, n) ==
    IF n = 1 THEN [node |-> "Int", val |-> toks[1].num]
    ELSE [node |-> "BinOp",
          left |-> LeftNested(toks, n - 2),
          oper |-> "Times",
          right |-> [node |-> "Int", val |-> toks[n].num],
          pos |-> [start |-> toks[n - 1].start, end |-> toks[n - 1].end]]

\* C11: for a token sequence n1 * n2 * ... * nk of integer literals (k >= 2), parse
\* returns Ok of the left-nested tree ((n1 * n2) * n3) ... * nk, each product at the
\* position of its operator.
C11_ProductsNestLeft ==
    (pc = "done" /\ IsProduct(parser.tokens))
        => /\ result.ok
           /\ result.expr = LeftNested(parser.tokens, Len(parser.tokens))

\* C11's case: a product of three literals parsed, the left operand a product itself
C11_ThreeFactorsParsed ==
    /\ pc = "done"
    /\ IsProduct(parser.tokens)
    /\ Len(parser.tokens) = 5
    /\ result.ok
    /\ result.expr.left.node = "BinOp"
    /\ result.expr.right.node = "Int"

\* C12: when the token at the cursor cannot start a primary expression where one is
\* required, parse fails with an unexpected-token error that carries a description of
\* what was expected, the kind of the offending token, and the source position of the
\* offending token.
C12_ErrorCarriesDescriptionKindPosition ==
    (pc = "done" /\ ~result.ok)
        => /\ result.err = "UnexpectedToken"
           /\ result.expected \in {"a number", "an arithmetic expression"}
           /\ result.actual = TokenKind(parser.tokens[parser.pos + 1])
           /\ "pos" \in DOMAIN result
           /\ result.pos = tok_pos(parser)

\* the kinds of a token sequence
Kinds(toks) == [i \in 1..Len(toks) |-> toks[i].kind]

\* e is the product or sum (by oper) of two operands of the given shapes
IsBinOp(e, oper) == e.node = "BinOp" /\ e.oper = oper
IsInt(e, x) == e.node = "Int" /\ e.val = x

\* C13: multiplication binds tighter than addition: the tokens a + b * c parse to
\* BinOp(a, Plus, BinOp(b, Times, c)), and a * b + c to BinOp(BinOp(a, Times, b), Plus, c).
C13_TimesBindsTighterThanPlus ==
    LET toks == parser.tokens
    IN  /\ (pc = "done" /\ Kinds(toks) = <<"Num", "Plus", "Num", "Times", "Num">>)
            => /\ result.ok
               /\ IsBinOp(result.expr, "Plus")
               /\ IsInt(result.expr.left, toks[1].num)
               /\ IsBinOp(result.expr.right, "Times")
               /\ IsInt(result.expr.right.left, toks[3].num)
               /\ IsInt(result.expr.right.right, toks[5].num)
        /\ (pc = "done" /\ Kinds(toks) = <<"Num", "Times", "Num", "Plus", "Num">>)
            => /\ result.ok
               /\ IsBinOp(result.expr, "Plus")
               /\ IsBinOp(result.expr.left, "Times")
               /\ IsInt(result.expr.left.left, toks[1].num)
               /\ IsInt(result.expr.left.right, toks[3].num)
               /\ IsInt(result.expr.right, toks[5].num)

\* C14: the cursor stays within 0..tokens.len(); a step leaves it alone or moves it
\* forward by exactly one, over a token that is there, and never changes the tokens;
\* and when parse returns an error the cursor is still at the offending token.
C14_ForwardOnlyCursor ==
    /\ [](parser.pos >= 0 /\ parser.pos <= Len(parser.tokens))
    /\ [][/\ parser'.tokens = parser.tokens
          /\ \/ parser'.pos = parser.pos
             \/ parser'.pos = parser.pos + 1 /\ parser.pos < Len(parser.tokens)]_vars
    /\ []((pc = "done" /\ ~result.ok)
            => /\ parser.pos < Len(parser.tokens)
               /\ result.actual = TokenKind(parser.tokens[parser.pos + 1]))

\* C14's case: an error after two tokens were consumed, the cursor on the third
C14_ErrorAfterTwoTokens ==
    /\ pc = "done"
    /\ ~result.ok
    /\ parser.pos = 2
    /\ Len(parser.tokens) > 3

\* C15: when parse returns Ok, the cursor equals tokens.len(): no token is left over.
C15_OkConsumesAllTokens ==
    (pc = "done" /\ result.ok) => parser.pos = Len(parser.tokens)

====
